---- MODULE Spec2Model ----
(***************************************************************************)
(* Interview orchestration engine: the Express controller                  *)
(* (InterviewController.ts), the LLM facade with one-time provider         *)
(* selection (LLMService.ts) and the provider services' moderation and     *)
(* planning helpers (BedrockService.ts / OllamaService.ts).                *)
(*                                                                         *)
(* Time is counted in ticks of TickMinutes minutes.  A JavaScript value    *)
(* that is undefined / null is the string "null"; only its truthiness is   *)
(* ever read by the code modelled here.                                    *)
(***************************************************************************)
EXTENDS Integers, Sequences, FiniteSets, TLC

VARIABLES
    clock,      \* Date.now(), in ticks
    store,      \* the InterviewSession collection: sessionId -> document
    llm,        \* the LLMService instance of the controller
    env,        \* USE_BEDROCK and the reachability of the two providers
    resp,       \* the last HTTP response sent
    turn,       \* what the last sendMessage pipeline run did
    pending     \* the requests between their findOne and their save

vars == <<clock, store, llm, env, resp, turn, pending>>

-----------------------------------------------------------------------------
(* Bounds of the model *)

TickMinutes == 12
MaxClock == 3
ModerationClock == 1
LongClock == 6

SessionIds == {"s1"}
RequestIds == SessionIds \cup {"unknown"}
Durations == {20, 30}
Modes == {"mock", "practice"}

-----------------------------------------------------------------------------
(* Session documents *)

phases == <<"warmup", "behavioral", "technical", "system_design", "product", "wrap_up">>

phaseOrder ==
    <<"setup", "warmup", "behavioral", "technical", "system_design", "product",
      "wrap_up", "completed">>

Rank(p) == CHOOSE i \in 1..Len(phaseOrder) : phaseOrder[i] = p

\* phases.indexOf(currentPhase), 0-based, -1 when absent
IndexOf(p) ==
    IF \E i \in 1..Len(phases) : phases[i] = p
    THEN (CHOOSE i \in 1..Len(phases) : phases[i] = p) - 1
    ELSE -1

getNextPhaseWraps(currentPhase) ==
    LET currentIndex == IndexOf(currentPhase)
    IN  phases[((currentIndex + 1) % Len(phases)) + 1]

\* return phases[currentIndex + 1] || 'wrap_up'
getNextPhase(currentPhase) ==
    LET currentIndex == IndexOf(currentPhase)
    IN  IF currentIndex + 1 < Len(phases) THEN phases[currentIndex + 2] ELSE "wrap_up"

\* (Date.now() - startTime) / (1000 * 60), for a reading of the clock at tick t
ElapsedMinutes(state, t) == (t - state.startTime) * TickMinutes

Max(a, b) == IF a >= b THEN a ELSE b
Min(a, b) == IF a <= b THEN a ELSE b

maxQuestionsLoose(durationMinutes) == Max(8, Min(12, durationMinutes \div 4))

\* Math.max(6, Math.min(12, Math.floor(durationMinutes / 4)))
maxQuestions(durationMinutes) == Max(6, Min(12, durationMinutes \div 4))

minQuestionsFloor(durationMinutes) == Max(3, durationMinutes \div 5)

\* Math.max(3, Math.ceil(durationMinutes / 5))
minQuestions(durationMinutes) == Max(3, (durationMinutes + 4) \div 5)

\* elapsedMinutes >= durationMinutes * 0.8
minTimeElapsedReached(elapsed, durationMinutes) == 10 * elapsed >= 8 * durationMinutes

shouldEndInterviewNoCap(state, durationMinutes, t) ==
    \/ ElapsedMinutes(state, t) >= durationMinutes
    \/ state.phase = "completed"

shouldEndInterview(state, durationMinutes, t) ==
    \/ ElapsedMinutes(state, t) >= durationMinutes
    \/ state.questionsAsked >= maxQuestions(durationMinutes)
    \/ state.phase = "completed"

-----------------------------------------------------------------------------
(* LLMService: one-time provider selection *)

Reachable(service) ==
    CASE service = "bedrock" -> env.bedrockUp
      [] service = "ollama"  -> env.ollamaUp
      [] OTHER               -> FALSE

\* The state of the instance once initPromise has resolved, for environment e.
initializeServices(e) ==
    IF e.useBedrock /\ e.bedrockUp
    THEN [initDone |-> TRUE, primaryService |-> "bedrock", fallbackService |-> "null",
          activeService |-> "bedrock"]
    ELSE [initDone |-> TRUE,
          primaryService |-> IF e.useBedrock THEN "bedrock" ELSE "null",
          fallbackService |-> "ollama",
          activeService |-> IF e.ollamaUp THEN "ollama" ELSE "null"]

getServicePrefersPrimary ==
    IF llm.primaryService # "null" /\ Reachable(llm.primaryService)
    THEN llm.primaryService
    ELSE IF llm.activeService = "null" THEN "throw" ELSE llm.activeService

\* getService(): the active service, or "throw" when there is none
getService == IF llm.activeService = "null" THEN "throw" ELSE llm.activeService

testConnectionProbesAgain == Reachable("bedrock") \/ Reachable("ollama")

\* LLMService.testConnection(): false when getService throws
testConnection == IF getService = "throw" THEN FALSE ELSE Reachable(getService)

getActiveServiceName ==
    IF llm.activeService = llm.primaryService THEN "AWS Bedrock"
    ELSE IF llm.activeService = llm.fallbackService THEN "Ollama"
    ELSE "None"

-----------------------------------------------------------------------------
(* Moderation *)

\* String.prototype.trim() on a sequence of characters
RECURSIVE TrimLeft(_)
TrimLeft(s) == IF s # <<>> /\ Head(s) = " " THEN TrimLeft(Tail(s)) ELSE s

RECURSIVE TrimRight(_)
TrimRight(s) ==
    IF s # <<>> /\ s[Len(s)] = " " THEN TrimRight(SubSeq(s, 1, Len(s) - 1)) ELSE s

Trim(s) == TrimRight(TrimLeft(s))

fallbackAnalysis(isSuspicious) ==
    [isAppropriate |-> ~isSuspicious, isOnTopic |-> ~isSuspicious,
     containsProfanity |-> FALSE,
     severity |-> IF isSuspicious THEN "medium" ELSE "low"]

\* reply: what the provider answered to the moderation prompt.  A field the
\* JSON lacks is undefined, which every use below reads as false; kind
\* "incomplete" is JSON that parses and has none of the fields.
analyzeResponseApproppriateness(reply, response) ==
    IF reply.kind \in {"json", "incomplete"}
    THEN [isAppropriate |-> reply.isAppropriate /\ ~reply.containsProfanity /\ ~reply.isAbusive,
          isOnTopic |-> reply.isOnTopic,
          containsProfanity |-> reply.containsProfanity \/ reply.isAbusive,
          severity |-> IF reply.severity = "null" THEN "low" ELSE reply.severity]
    ELSE fallbackAnalysis(Len(Trim(response)) < 5)

generateModerationResponseNoEscalation(analysis, warningCount) ==
    IF analysis.containsProfanity \/ analysis.severity = "high"
    THEN [message |-> "warning", shouldTerminate |-> FALSE]
    ELSE IF ~analysis.isOnTopic
    THEN [message |-> "redirect", shouldTerminate |-> FALSE]
    ELSE [message |-> "", shouldTerminate |-> FALSE]

generateModerationResponse(analysis, warningCount) ==
    IF analysis.containsProfanity \/ analysis.severity = "high"
    THEN IF warningCount + 1 >= 2
         THEN [message |-> "termination", shouldTerminate |-> TRUE]
         ELSE [message |-> "warning", shouldTerminate |-> FALSE]
    ELSE IF ~analysis.isOnTopic
    THEN [message |-> "redirect", shouldTerminate |-> FALSE]
    ELSE [message |-> "", shouldTerminate |-> FALSE]

\* agenticDecisions.filter(d => d.decision === 'MODERATE').length
RECURSIVE CountOf(_, _)
CountOf(seq, x) ==
    IF seq = <<>> THEN 0
    ELSE (IF Head(seq) = x THEN 1 ELSE 0) + CountOf(Tail(seq), x)

WarningCount(doc) == CountOf(doc.agenticDecisions, "MODERATE")

-----------------------------------------------------------------------------
(* Planner *)

makeAgenticDecisionNoFallback(reply) ==
    IF reply.kind = "json" THEN reply.decision ELSE "null"

\* The decision field of the value makeAgenticDecision returns: the parsed
\* decision ("null" when the JSON has none), MOVE_NEXT when JSON.parse throws.
makeAgenticDecision(reply) ==
    IF reply.kind = "json" THEN reply.decision ELSE "MOVE_NEXT"

\* generateNextQuestion, case 'CHANGE_PHASE': the two phases handed to
\* InterviewPrompts.generatePhaseTransition, from the phase of the context
generatePhaseTransition(contextPhase) ==
    [from |-> contextPhase, to |-> getNextPhase(contextPhase)]

-----------------------------------------------------------------------------
(* What the environment can answer during one sendMessage *)

\* request bodies: the empty message, a short message padded with blanks,
\* and a message of exactly five characters
shortText == <<" ", "o", "k", " ", " ", " ">>
longText == <<"h", "e", "l", "l", "o">>
UserTexts == {<<>>, shortText, longText}

Json(a, t, p, b, s) ==
    [kind |-> "json", isAppropriate |-> a, isOnTopic |-> t, containsProfanity |-> p,
     isAbusive |-> b, severity |-> s]

NoJson(k) == [Json(FALSE, FALSE, FALSE, FALSE, "null") EXCEPT !.kind = k]

\* kind "throw": the provider call failed; "nonjson": JSON.parse throws;
\* "incomplete": JSON without the fields
AllModerationReplies ==
    {NoJson("throw"), NoJson("nonjson"), NoJson("incomplete")} \cup
    {Json(a, t, p, b, s) : a \in BOOLEAN, t \in BOOLEAN, p \in BOOLEAN, b \in BOOLEAN,
                           s \in {"low", "medium", "high", "null"}}

clean == Json(TRUE, TRUE, FALSE, FALSE, "low")
profane == Json(FALSE, TRUE, TRUE, FALSE, "medium")
severeButAppropriate == Json(TRUE, TRUE, FALSE, FALSE, "high")
offTopicInappropriate == Json(FALSE, FALSE, FALSE, FALSE, "low")

Plan(k, d) == [kind |-> k, decision |-> d]

\* kind "throw": the provider call failed; "malformed": JSON.parse throws;
\* decision "null": the JSON has no decision field
AllPlannerReplies ==
    {Plan("throw", "null"), Plan("malformed", "null")} \cup
    {Plan("json", d) : d \in {"ASK_FOLLOWUP", "MOVE_NEXT", "CHANGE_PHASE", "CLARIFY",
                              "WRAP_UP", "REDIRECT", "MODERATE", "UNKNOWN", "null"}}

\* generateNextQuestion / generatePracticeFeedback: text, '' or an exception
TextReplies == {"text", "", "throw"}

\* generateEvaluation: JSON the schema accepts, JSON it rejects, no JSON, exception
AllEvaluationReplies == {"valid", "invalid", "nonjson", "throw"}

-----------------------------------------------------------------------------
(* The controller *)

NoAnalysis == [isAppropriate |-> TRUE, isOnTopic |-> TRUE, containsProfanity |-> FALSE,
               severity |-> "null"]

\* turn: the trace of one run of the sendMessage pipeline, with the status it
\* answered
NoTurn ==
    [sessionId |-> "null", message |-> <<>>, reply |-> "null",
     committed |-> FALSE, status |-> 0, failedAt |-> {}, analysis |-> NoAnalysis,
     payload |-> "null", proposed |-> "null", decision |-> "null",
     generatedFor |-> "null", transition |-> "null", request |-> "null",
     elapsedMinutes |-> 0, aiResponse |-> "null", shouldEndSession |-> FALSE,
     calls |-> {}]

\* resp: the operation answered, its status and error, the session the
\* request named, and what the body carries
NoResp ==
    [op |-> "none", status |-> 0, error |-> "null", sessionId |-> "null",
     body |-> "null", llmService |-> "null", via |-> "null"]

Respond(op, status) == resp' = [NoResp EXCEPT !.op = op, !.status = status]

\* the paths the schema validation of session.save() rejects: the required
\* content of a message, the required decision of an agentic decision, the
\* evaluation schema
ValidationErrors(doc) ==
    {"messages.content" : i \in {j \in 1..Len(doc.messages) : doc.messages[j].content = ""}}
    \cup {"agenticDecisions.decision" :
            i \in {j \in 1..Len(doc.agenticDecisions) : doc.agenticDecisions[j] = "null"}}
    \cup {"evaluation" : i \in {j \in {1} : doc.evaluation = "invalid"}}

Validates(doc) == ValidationErrors(doc) = {}

canWrapUpEither(elapsedMinutes, questionsAsked, durationMinutes) ==
    \/ minTimeElapsedReached(elapsedMinutes, durationMinutes)
    \/ questionsAsked >= minQuestions(durationMinutes)

canWrapUp(elapsedMinutes, questionsAsked, durationMinutes) ==
    /\ minTimeElapsedReached(elapsedMinutes, durationMinutes)
    /\ questionsAsked >= minQuestions(durationMinutes)

\* lines 206-208
terminateSession(doc, now) ==
    [doc EXCEPT !.state.isActive = FALSE, !.state.endTime = <<now>>,
                !.state.phase = "completed"]

endInterviewKeepsPhase(doc, now) ==
    [doc EXCEPT !.state.isActive = FALSE, !.state.endTime = <<now>>]

\* lines 336-338
endInterview(doc, now) ==
    [doc EXCEPT !.state.isActive = FALSE, !.state.endTime = <<now>>,
                !.state.phase = "completed"]

evaluatesWheneverEnded(ends, shouldEndSession) == ends

\* lines 335-341: the evaluation is generated only if (!shouldEndSession)
evaluates(ends, shouldEndSession) == ends /\ ~shouldEndSession

\* the requests still between findOne and save once request has answered
Forget(request) == [r \in DOMAIN pending \ {request} |-> pending[r]]

\* the document the request got from findOne: the stored one, unless the
\* request read it in an earlier step
Loaded(sessionId, request) ==
    IF request \in DOMAIN pending THEN pending[request].session ELSE store[sessionId]

saveDeltaPrepends(stored, loaded, doc) ==
    [doc EXCEPT
        !.messages = SubSeq(doc.messages, Len(loaded.messages) + 1, Len(doc.messages))
                        \o stored.messages]

\* session.save(): the update Mongoose sends holds the paths the request
\* modified, a $push of the array entries it appended and a $set of each
\* field it changed; stored is the document the update is applied to
saveDelta(stored, loaded, doc) ==
    LET Pushed(field) == SubSeq(doc[field], Len(loaded[field]) + 1, Len(doc[field]))
        Set(path, ofStored, ofLoaded, ofDoc) ==
            IF ofDoc # ofLoaded THEN ofDoc ELSE ofStored
    IN  [stored EXCEPT
            !.messages = @ \o Pushed("messages"),
            !.agenticDecisions = @ \o Pushed("agenticDecisions"),
            !.state = [f \in DOMAIN @ |->
                          Set(f, stored.state[f], loaded.state[f], doc.state[f])],
            !.evaluation = Set("evaluation", @, loaded.evaluation, doc.evaluation)]

\* the catch block of sendMessage: nothing is saved
Throw(tr, at) ==
    /\ resp' = [NoResp EXCEPT !.op = "sendMessage", !.status = 500,
                              !.error = "failed", !.sessionId = tr.sessionId]
    /\ turn' = [tr EXCEPT !.failedAt = at, !.status = 500]
    /\ pending' = Forget(tr.request)
    /\ UNCHANGED <<clock, store, llm, env>>

SaveUserTurnFirst(sessionId, doc, tr, tEnd, I) ==
    \E persisted \in I.save :
        IF ~Validates(doc) \/ ~persisted
        THEN /\ store' = [store EXCEPT ![sessionId].messages =
                              Append(@, [role |-> "user", content |-> "text"])]
             /\ resp' = [NoResp EXCEPT !.op = "sendMessage", !.status = 500,
                                       !.error = "failed", !.sessionId = sessionId]
             /\ turn' = [tr EXCEPT !.failedAt = {"save"}, !.status = 500]
             /\ pending' = Forget(tr.request)
             /\ UNCHANGED <<clock, llm, env>>
        ELSE /\ store' = [store EXCEPT ![sessionId] =
                              saveDelta(@, Loaded(sessionId, tr.request), doc)]
             /\ resp' = [NoResp EXCEPT !.op = "sendMessage", !.status = 200,
                                       !.sessionId = sessionId]
             /\ turn' = [tr EXCEPT !.committed = TRUE, !.status = 200]
             /\ clock' = tEnd
             /\ pending' = Forget(tr.request)
             /\ UNCHANGED <<llm, env>>

\* await session.save(); res.json(...)
Save(sessionId, doc, tr, tEnd, I) ==
    \E persisted \in I.save :
        IF ~Validates(doc)
        THEN Throw(tr, ValidationErrors(doc))
        ELSE IF ~persisted
        THEN Throw(tr, {"save"})
        ELSE /\ store' = [store EXCEPT ![sessionId] =
                              saveDelta(@, Loaded(sessionId, tr.request), doc)]
             /\ resp' = [NoResp EXCEPT !.op = "sendMessage", !.status = 200,
                                       !.sessionId = sessionId]
             /\ turn' = [tr EXCEPT !.committed = TRUE, !.status = 200]
             /\ clock' = tEnd
             /\ pending' = Forget(tr.request)
             /\ UNCHANGED <<llm, env>>

\* lines 320-364: the assistant message, the end check, the evaluation
Finish(sessionId, doc, aiResponse, shouldEndSession, tFrom, tr, I) ==
    \E tEnd \in tFrom..Min(tFrom + 1, I.maxClock) :
        LET d1 == [doc EXCEPT !.messages =
                       Append(@, [role |-> "assistant",
                                  content |-> IF aiResponse = "" THEN "" ELSE "text"])]
            ends == shouldEndSession
                    \/ shouldEndInterview(d1.state, d1.config.durationMinutes, tEnd)
            d2 == IF ends THEN endInterview(d1, clock) ELSE d1
            t1 == [tr EXCEPT !.aiResponse = aiResponse, !.shouldEndSession = shouldEndSession]
        IN  IF evaluates(ends, shouldEndSession)
            THEN \E ev \in I.evaluation :
                    LET t2 == [t1 EXCEPT !.calls = @ \cup {"generateEvaluation"}]
                    IN  IF ev = "throw"
                        THEN Throw(t2, {"generateEvaluation"})
                        ELSE Save(sessionId,
                                  [d2 EXCEPT !.evaluation =
                                       IF ev = "nonjson" THEN "fallback" ELSE ev],
                                  t2, tEnd, I)
            ELSE Save(sessionId, d2, t1, tEnd, I)

\* lines 196-230: the moderation branch
Moderate(sessionId, doc, analysis, warningCount, tr, I) ==
    LET moderationResponse == generateModerationResponse(analysis, warningCount)
        t1 == [tr EXCEPT !.calls = @ \cup {"generateModerationResponse"}]
    IN  IF moderationResponse.shouldTerminate
        THEN Finish(sessionId,
                    [terminateSession(doc, clock)
                        EXCEPT !.agenticDecisions = Append(@, "TERMINATE")],
                    moderationResponse.message, TRUE, clock,
                    [t1 EXCEPT !.decision = "TERMINATE"], I)
        ELSE IF moderationResponse.message # ""
        THEN Finish(sessionId,
                    [doc EXCEPT !.agenticDecisions = Append(@, "MODERATE")],
                    moderationResponse.message, FALSE, clock,
                    [t1 EXCEPT !.decision = "MODERATE"], I)
        ELSE Finish(sessionId, doc, "", FALSE, clock, t1, I)

\* lines 232-263: practice mode
Practice(sessionId, doc, tr, I) ==
    \E feedbackText \in I.feedback :
        LET t1 == [tr EXCEPT !.calls = @ \cup {"generatePracticeFeedback"}]
        IN  IF feedbackText = "throw"
            THEN Throw(t1, {"generatePracticeFeedback"})
            ELSE Finish(sessionId, doc, "feedback", FALSE, clock, t1, I)

MockChecksBudget(sessionId, doc, tr, I) ==
    \E reply \in I.planner, tDecide \in clock..Min(clock + 1, I.maxClock) :
        LET t1 == [tr EXCEPT !.calls = @ \cup {"makeAgenticDecision"},
                             !.payload = reply.kind, !.proposed = reply.decision]
        IN  IF reply.kind = "throw"
            THEN Throw(t1, {"makeAgenticDecision"})
            ELSE
            LET decision == makeAgenticDecision(reply)
                d1 == [doc EXCEPT !.agenticDecisions = Append(@, decision)]
                elapsedMinutes == ElapsedMinutes(d1.state, tDecide)
                wrapsUp == decision = "WRAP_UP"
                           /\ canWrapUp(elapsedMinutes, d1.state.questionsAsked,
                                        d1.config.durationMinutes)
                newPhase ==
                    CASE wrapsUp -> "wrap_up"
                      [] decision = "CHANGE_PHASE" /\ d1.state.questionsAsked >= 2
                           -> getNextPhase(d1.state.phase)
                      [] OTHER -> d1.state.phase
                generatedFor ==
                    IF decision = "WRAP_UP" /\ ~wrapsUp THEN "MOVE_NEXT" ELSE decision
                t2 == [t1 EXCEPT !.decision = decision, !.generatedFor = generatedFor,
                                 !.elapsedMinutes = elapsedMinutes,
                                 \* context.state is session.state: the
                                 \* generator reads the phase that line
                                 \* 307 has already assigned
                                 !.transition =
                                     IF generatedFor = "CHANGE_PHASE"
                                     THEN generatePhaseTransition(newPhase)
                                     ELSE "null",
                                 !.calls = @ \cup {"generateNextQuestion"}]
            IN  \E content \in I.content :
                    IF content = "throw"
                    THEN Throw(t2, {"generateNextQuestion"})
                    ELSE Finish(sessionId, [d1 EXCEPT !.state.phase = newPhase],
                                content, wrapsUp, tDecide, t2, I)

\* lines 266-317: mock mode, the decision and what the controller makes of it
Mock(sessionId, doc, tr, I) ==
    \E reply \in I.planner, tDecide \in clock..Min(clock + 1, I.maxClock) :
        LET t1 == [tr EXCEPT !.calls = @ \cup {"makeAgenticDecision"},
                             !.payload = reply.kind, !.proposed = reply.decision]
        IN  IF reply.kind = "throw"
            THEN Throw(t1, {"makeAgenticDecision"})
            ELSE
            LET decision == makeAgenticDecision(reply)
                d1 == [doc EXCEPT !.agenticDecisions = Append(@, decision)]
                elapsedMinutes == ElapsedMinutes(d1.state, tDecide)
                wrapsUp == decision = "WRAP_UP"
                           /\ canWrapUp(elapsedMinutes, d1.state.questionsAsked,
                                        d1.config.durationMinutes)
                newPhase ==
                    CASE wrapsUp -> "wrap_up"
                      [] decision = "CHANGE_PHASE" -> getNextPhase(d1.state.phase)
                      [] OTHER -> d1.state.phase
                generatedFor ==
                    IF decision = "WRAP_UP" /\ ~wrapsUp THEN "MOVE_NEXT" ELSE decision
                t2 == [t1 EXCEPT !.decision = decision, !.generatedFor = generatedFor,
                                 !.elapsedMinutes = elapsedMinutes,
                                 \* context.state is session.state: the
                                 \* generator reads the phase that line
                                 \* 307 has already assigned
                                 !.transition =
                                     IF generatedFor = "CHANGE_PHASE"
                                     THEN generatePhaseTransition(newPhase)
                                     ELSE "null",
                                 !.calls = @ \cup {"generateNextQuestion"}]
            IN  \E content \in I.content :
                    IF content = "throw"
                    THEN Throw(t2, {"generateNextQuestion"})
                    ELSE Finish(sessionId, [d1 EXCEPT !.state.phase = newPhase],
                                content, wrapsUp, tDecide, t2, I)

PipelineAlwaysMock(sessionId, session, message, I) ==
    LET doc == [session EXCEPT
                    !.messages = Append(@, [role |-> "user", content |-> "text"]),
                    !.state.questionsAsked = @ + 1]
        warningCount == WarningCount(session)
        t0 == [NoTurn EXCEPT !.sessionId = sessionId, !.message = message,
                             !.request = I.request,
                             !.calls = {"analyzeResponseApproppriateness"}]
    IN  IF getService = "throw"
        THEN Throw(t0, {"getService"})
        ELSE \E reply \in I.moderation :
                LET contentAnalysis == analyzeResponseApproppriateness(reply, message)
                    t1 == [t0 EXCEPT !.reply = reply.kind, !.analysis = contentAnalysis]
                IN  IF ~contentAnalysis.isAppropriate \/ contentAnalysis.containsProfanity
                    THEN Moderate(sessionId, doc, contentAnalysis, warningCount, t1, I)
                    ELSE Mock(sessionId, doc, t1, I)

\* lines 142-230: the user message, the counters, the moderation analysis
Pipeline(sessionId, session, message, I) ==
    LET doc == [session EXCEPT
                    !.messages = Append(@, [role |-> "user", content |-> "text"]),
                    !.state.questionsAsked = @ + 1]
        warningCount == WarningCount(session)
        t0 == [NoTurn EXCEPT !.sessionId = sessionId, !.message = message,
                             !.request = I.request,
                             !.calls = {"analyzeResponseApproppriateness"}]
    IN  IF getService = "throw"
        THEN Throw(t0, {"getService"})
        ELSE \E reply \in I.moderation :
                LET contentAnalysis == analyzeResponseApproppriateness(reply, message)
                    t1 == [t0 EXCEPT !.reply = reply.kind, !.analysis = contentAnalysis]
                IN  IF ~contentAnalysis.isAppropriate \/ contentAnalysis.containsProfanity
                    THEN Moderate(sessionId, doc, contentAnalysis, warningCount, t1, I)
                    ELSE IF doc.config.interviewMode = "practice"
                    THEN Practice(sessionId, doc, t1, I)
                    ELSE Mock(sessionId, doc, t1, I)

Reject(op, status) ==
    /\ Respond(op, status)
    /\ UNCHANGED <<clock, store, llm, env, turn, pending>>

\* lines 119-140: the early returns of sendMessage
RejectSend(sessionId, status, error) ==
    /\ resp' = [NoResp EXCEPT !.op = "sendMessage", !.status = status,
                              !.error = error, !.sessionId = sessionId]
    /\ UNCHANGED <<clock, store, llm, env, turn, pending>>

sendMessageIgnoresEnded(I) ==
    /\ llm.initDone
    /\ \E sessionId \in I.ids, message \in I.texts :
        IF message = <<>>
        THEN RejectSend(sessionId, 400, "missing_fields")
        ELSE IF sessionId \notin DOMAIN store
        THEN RejectSend(sessionId, 404, "not_found")
        ELSE Pipeline(sessionId, store[sessionId], message, I)

\* lines 115-381
sendMessageWith(I) ==
    /\ llm.initDone
    /\ \E sessionId \in I.ids, message \in I.texts :
        IF message = <<>>
        THEN RejectSend(sessionId, 400, "missing_fields")
        ELSE IF sessionId \notin DOMAIN store
        THEN RejectSend(sessionId, 404, "not_found")
        ELSE IF ~store[sessionId].state.isActive
        THEN RejectSend(sessionId, 400, "ended")
        ELSE Pipeline(sessionId, store[sessionId], message, I)

\* lines 21-112
createSessionWith(I) ==
    /\ llm.initDone
    /\ \E valid \in BOOLEAN, durationMinutes \in I.durations, interviewMode \in Modes,
       sessionId \in SessionIds \ DOMAIN store, initialQuestion \in I.content,
       persisted \in I.save :
        IF ~valid
        THEN Reject("createSession", 400)
        ELSE IF ~testConnection
        THEN Reject("createSession", 503)
        ELSE LET doc ==
                   [config |-> [durationMinutes |-> durationMinutes,
                                interviewMode |-> interviewMode],
                    state |-> [phase |-> "warmup", questionsAsked |-> 0,
                               startTime |-> clock, endTime |-> <<>>,
                               isActive |-> TRUE],
                    messages |-> <<[role |-> "assistant", content |-> initialQuestion]>>,
                    agenticDecisions |-> <<>>,
                    evaluation |-> "null"]
             IN  IF getService = "throw" \/ initialQuestion = "throw" \/ ~persisted
                    \/ ~Validates(doc)
                 THEN Reject("createSession", 500)
                 ELSE /\ store' = (sessionId :> doc) @@ store
                      /\ Respond("createSession", 201)
                      /\ UNCHANGED <<clock, llm, env, turn, pending>>

\* lines 416-448: the status getEvaluation answers with
getEvaluationStatus(sessionId) ==
    IF sessionId \notin DOMAIN store THEN 404
    ELSE IF store[sessionId].evaluation = "null" THEN 400
    ELSE 200

getEvaluationBodyStamped(sessionId) ==
    IF getEvaluationStatus(sessionId) # 200 THEN "null"
    ELSE [evaluation |-> store[sessionId].evaluation,
          transcript |-> store[sessionId].messages,
          config |-> store[sessionId].config,
          servedAt |-> clock]

\* lines 435-440: { sessionId, evaluation, transcript, config }
getEvaluationBody(sessionId) ==
    IF getEvaluationStatus(sessionId) # 200 THEN "null"
    ELSE [evaluation |-> store[sessionId].evaluation,
          transcript |-> store[sessionId].messages,
          config |-> store[sessionId].config]

getEvaluation ==
    /\ \E sessionId \in RequestIds :
          resp' = [NoResp EXCEPT
                      !.op = "getEvaluation",
                      !.status = getEvaluationStatus(sessionId),
                      !.error = CASE getEvaluationStatus(sessionId) = 404 -> "not_found"
                                  [] getEvaluationStatus(sessionId) = 400 -> "not_available"
                                  [] OTHER -> "null",
                      !.sessionId = sessionId,
                      !.body = getEvaluationBody(sessionId)]
    /\ UNCHANGED <<clock, store, llm, env, turn, pending>>

\* every value a phase field can hold, and one that is no phase
PhaseValues == {phaseOrder[i] : i \in 1..Len(phaseOrder)} \cup {"unknown"}

\* an application of getNextPhase (lines 517-521) to any phase value
nextPhase ==
    /\ \E p \in PhaseValues :
          resp' = [NoResp EXCEPT !.op = "getNextPhase",
                                 !.body = [phase |-> p, next |-> getNextPhase(p)]]
    /\ UNCHANGED <<clock, store, llm, env, turn, pending>>

\* lines 498-514
healthCheck ==
    /\ llm.initDone
    /\ resp' = [NoResp EXCEPT !.op = "healthCheck",
                              !.status = IF testConnection THEN 200 ELSE 503,
                              !.llmService = getActiveServiceName]
    /\ UNCHANGED <<clock, store, llm, env, turn, pending>>

\* Time passes.  No behaviour depends on absolute time, so the clock starts
\* with the first session.
TickTo(maxClock) ==
    /\ DOMAIN store # {}
    /\ clock < maxClock
    /\ clock' = clock + 1
    /\ UNCHANGED <<store, llm, env, resp, turn, pending>>

-----------------------------------------------------------------------------
(* Spec: the orchestrator and the decision governor, with a provider        *)
(* selected at startup and every provider call answered                     *)

SpecInputs ==
    [ids |-> SessionIds,
     texts |-> {longText},
     durations |-> Durations,
     maxClock |-> MaxClock,
     moderation |-> {clean, profane},
     planner |-> {Plan("json", "MOVE_NEXT"), Plan("json", "CHANGE_PHASE"),
                  Plan("json", "WRAP_UP"), Plan("malformed", "null")},
     content |-> {"text"},
     feedback |-> {"text"},
     evaluation |-> {"valid"},
     save |-> {TRUE},
     request |-> "null"]

createSession == createSessionWith(SpecInputs)
sendMessage == sendMessageWith(SpecInputs)
Tick == TickTo(MaxClock)
TickModerated == TickTo(ModerationClock)

\* the process has started: the primary was probed and failed, the secondary
\* answered and is the active service
Init ==
    /\ clock = 0
    /\ store = <<>>
    /\ env = [useBedrock |-> TRUE, bedrockUp |-> FALSE, ollamaUp |-> TRUE]
    /\ llm = initializeServices(env)
    /\ resp = NoResp
    /\ turn = NoTurn
    /\ pending = <<>>

Next == Tick \/ createSession \/ sendMessage

Spec == Init /\ [][Next]_vars

-----------------------------------------------------------------------------
(* Properties of Spec *)

\* a step that changes the persisted document of session sid
Turn(sid) == sid \in DOMAIN store /\ store'[sid] # store[sid]

Clamp(x, lo, hi) == Max(lo, Min(hi, x))

\* the session was ended by the moderation branch
ModerationTerminated(doc) ==
    /\ doc.agenticDecisions # <<>>
    /\ doc.agenticDecisions[Len(doc.agenticDecisions)] = "TERMINATE"

\* C1 -- Hard termination: a committed sendMessage turn at whose end check
\* the elapsed minutes have reached durationMinutes, or the number of user
\* turns has reached clamp(floor(d/4), 6, 12), leaves the session inactive,
\* whatever the planner proposed and the moderation answered; an inactive
\* session takes no further turn; a 30 minute session therefore never has
\* more than 7 user turns and is inactive at the 7th.
C1_HardTermination ==
    [][\A sid \in SessionIds :
          /\ Turn(sid) =>
                LET after == store'[sid]
                    d == after.config.durationMinutes
                IN  (\/ ElapsedMinutes(after.state, clock') >= d
                     \/ after.state.questionsAsked >= Clamp(d \div 4, 6, 12))
                    => ~after.state.isActive
          /\ (sid \in DOMAIN store /\ ~store[sid].state.isActive)
                => store'[sid] = store[sid]
          /\ (sid \in DOMAIN store' /\ store'[sid].config.durationMinutes = 30)
                => /\ store'[sid].state.questionsAsked <= 7
                   /\ store'[sid].state.questionsAsked = 7 => ~store'[sid].state.isActive
    ]_vars

\* a 30 minute mock session the question cap ended at its 7th user turn, well
\* inside its duration, after a planner that only ever proposed MOVE_NEXT
C1_Witness ==
    \E sid \in DOMAIN store :
        /\ store[sid].config.durationMinutes = 30
        /\ store[sid].state.questionsAsked = 7
        /\ CountOf(store[sid].agenticDecisions, "MOVE_NEXT") = 7
        /\ ElapsedMinutes(store[sid].state, clock) < 30
        /\ ~store[sid].state.isActive

\* C2 -- Phase monotonicity: a session is created in warmup, and no step
\* moves the persisted phase backward in the order setup, warmup,
\* behavioral, technical, system_design, product, wrap_up, completed; a step
\* that skips a phase is the jump to completed of a session that ends.
C2_PhaseMonotone ==
    [][\A sid \in SessionIds :
          /\ (sid \in DOMAIN store' /\ sid \notin DOMAIN store)
                => store'[sid].state.phase = "warmup"
          /\ sid \in DOMAIN store =>
                LET before == Rank(store[sid].state.phase)
                    after == Rank(store'[sid].state.phase)
                IN  /\ after >= before
                    /\ after > before + 1
                          => /\ store'[sid].state.phase = "completed"
                             /\ ~store'[sid].state.isActive
    ]_vars

\* CHANGE_PHASE was proposed in wrap_up and the session stayed in wrap_up
C2_Witness ==
    \E sid \in DOMAIN store :
        /\ store[sid].state.isActive
        /\ store[sid].state.phase = "wrap_up"
        /\ CountOf(store[sid].agenticDecisions, "CHANGE_PHASE") = 6

\* the thresholds of the decision governor for a WRAP_UP proposal
WrapUpAllowed(elapsed, questionsAsked, d) ==
    /\ 10 * elapsed >= 8 * d
    /\ questionsAsked >= Max(3, (d + 4) \div 5)

\* C3 as stated: a WRAP_UP proposal is honoured only above both thresholds;
\* below, content is generated for MOVE_NEXT, the phase is left unchanged
\* and the governor does not end the session; on turn 1 of a 30 minute
\* session the proposal is demoted, the session stays active and the phase
\* stays before wrap_up.
C3_AsStated ==
    [][\A sid \in SessionIds :
          (Turn(sid) /\ turn'.decision = "WRAP_UP") =>
              LET after == store'[sid]
                  d == after.config.durationMinutes
                  allowed == WrapUpAllowed(turn'.elapsedMinutes,
                                           after.state.questionsAsked, d)
              IN  /\ turn'.generatedFor = "WRAP_UP" => allowed
                  /\ ~allowed => /\ turn'.generatedFor = "MOVE_NEXT"
                                 /\ after.state.phase = store[sid].state.phase
                                 /\ ~turn'.shouldEndSession
                  /\ (d = 30 /\ after.state.questionsAsked = 1)
                        => /\ turn'.generatedFor = "MOVE_NEXT"
                           /\ after.state.isActive
                           /\ Rank(after.state.phase) < Rank("wrap_up")
    ]_vars

\* C3 -- WRAP_UP is advisory: a WRAP_UP proposal is honoured only above both
\* thresholds; below, content is generated for MOVE_NEXT and the governor
\* does not end the session, and the phase is left unchanged unless the hard
\* termination rule ends the session on that turn (phase completed); on turn
\* 1 of a 30 minute session the proposal is demoted, and the session stays
\* active with a phase before wrap_up when less than 30 minutes have elapsed
\* at the end check of that turn.
C3_WrapUpAdvisory ==
    [][\A sid \in SessionIds :
          (Turn(sid) /\ turn'.decision = "WRAP_UP") =>
              LET after == store'[sid]
                  d == after.config.durationMinutes
                  allowed == WrapUpAllowed(turn'.elapsedMinutes,
                                           after.state.questionsAsked, d)
                  hardEnd == \/ ElapsedMinutes(after.state, clock') >= d
                             \/ after.state.questionsAsked >= Clamp(d \div 4, 6, 12)
              IN  /\ turn'.generatedFor = "WRAP_UP" => allowed
                  /\ turn'.shouldEndSession => allowed
                  /\ ~allowed => /\ turn'.generatedFor = "MOVE_NEXT"
                                 /\ ~turn'.shouldEndSession
                                 /\ after.state.isActive = ~hardEnd
                                 /\ after.state.phase =
                                       IF hardEnd THEN "completed"
                                       ELSE store[sid].state.phase
                  /\ (d = 30 /\ after.state.questionsAsked = 1)
                        => /\ turn'.generatedFor = "MOVE_NEXT"
                           /\ ElapsedMinutes(after.state, clock') < 30
                                 => /\ after.state.isActive
                                    /\ Rank(after.state.phase) < Rank("wrap_up")
    ]_vars

\* WRAP_UP proposed on turn 1 of a 30 minute session, after 80% of the
\* duration: demoted, and the session is still active
C3_Witness ==
    \E sid \in DOMAIN store :
        /\ turn.committed
        /\ turn.decision = "WRAP_UP"
        /\ turn.generatedFor = "MOVE_NEXT"
        /\ 10 * turn.elapsedMinutes >= 8 * 30
        /\ store[sid].config.durationMinutes = 30
        /\ store[sid].state.questionsAsked = 1
        /\ store[sid].state.isActive
        /\ store[sid].state.phase = "warmup"

\* C8 -- Session-end invariant: a persisted session that is not active has
\* its endTime set and its phase completed.
C8_SessionEnd ==
    \A sid \in DOMAIN store :
        ~store[sid].state.isActive
            => /\ store[sid].state.endTime # <<>>
               /\ store[sid].state.phase = "completed"

\* a session ended by the end check of a turn
C8_Witness ==
    \E sid \in DOMAIN store :
        /\ ~store[sid].state.isActive
        /\ ~ModerationTerminated(store[sid])
        /\ store[sid].state.endTime # <<>>

\* C9 -- The evaluation is set at most once, and only on a turn that ends
\* the session otherwise than by moderation TERMINATE: a stored evaluation
\* never changes; one appears only on a step that makes an active session
\* inactive; and a session that has one is completed and was not terminated
\* by moderation.
C9_EvaluationOnce ==
    [][\A sid \in DOMAIN store' :
          LET after == store'[sid]
              before == IF sid \in DOMAIN store THEN store[sid].evaluation ELSE "null"
          IN  /\ before # "null" => after.evaluation = before
              /\ after.evaluation # before
                    => /\ sid \in DOMAIN store
                       /\ store[sid].state.isActive
                       /\ ~after.state.isActive
              /\ after.evaluation # "null"
                    => /\ after.state.phase = "completed"
                       /\ ~ModerationTerminated(after)
                       /\ turn'.decision # "TERMINATE"
    ]_vars

\* the turn that ended the session generated the evaluation
C9_Witness ==
    \E sid \in DOMAIN store :
        /\ store[sid].evaluation = "valid"
        /\ "generateEvaluation" \in turn.calls
        /\ turn.committed
        /\ ~store[sid].state.isActive

\* C10 as stated: a completed session that moderation did not terminate has
\* an evaluation, and getEvaluation answers it.
C10_AsStated ==
    \A sid \in DOMAIN store :
        (~store[sid].state.isActive /\ ~ModerationTerminated(store[sid]))
            => /\ store[sid].evaluation # "null"
               /\ getEvaluationStatus(sid) = 200

\* the entry after p in the list of phases, wrap_up for the last entry and
\* for a value that is not in the list
FollowingPhase(p) ==
    IF \E i \in 1..(Len(phases) - 1) : phases[i] = p
    THEN phases[(CHOOSE i \in 1..(Len(phases) - 1) : phases[i] = p) + 1]
    ELSE "wrap_up"

\* C23 -- CHANGE_PHASE is always honoured: a mock turn that passes the
\* moderation and on which the planner proposes CHANGE_PHASE leaves the
\* session in the phase that follows the phase before the turn, or in
\* completed when the turn also ends the session, whatever the elapsed time
\* and the number of questions.
C23_ChangePhaseHonoured ==
    [][\A sid \in DOMAIN store :
          (/\ Turn(sid)
           /\ store[sid].config.interviewMode = "mock"
           /\ "makeAgenticDecision" \in turn'.calls
           /\ turn'.proposed = "CHANGE_PHASE") =>
              store'[sid].state.phase =
                  IF store'[sid].state.isActive
                  THEN FollowingPhase(store[sid].state.phase)
                  ELSE "completed"
    ]_vars

\* the first answer of a session, no minute elapsed, moved it out of warmup
C23_Witness ==
    \E sid \in DOMAIN store :
        /\ turn.committed
        /\ turn.proposed = "CHANGE_PHASE"
        /\ turn.elapsedMinutes = 0
        /\ store[sid].state.questionsAsked = 1
        /\ store[sid].state.isActive
        /\ store[sid].state.phase = "behavioral"

\* seq begins with all of prefix
StartsWith(seq, prefix) ==
    /\ Len(seq) >= Len(prefix)
    /\ SubSeq(seq, 1, Len(prefix)) = prefix

\* the assistant's first turn, then user and assistant in turn
Alternates(messages) ==
    /\ messages # <<>>
    /\ \A i \in 1..Len(messages) :
          messages[i].role = IF i % 2 = 1 THEN "assistant" ELSE "user"

\* C24 -- Transcript and decision log are append-only: a committed
\* sendMessage turn keeps every transcript entry and every decision log
\* entry there was, and adds to the transcript exactly one user turn
\* followed by exactly one assistant turn; so every persisted transcript
\* starts with the assistant's first turn and then alternates user,
\* assistant.
C24_AppendOnly ==
    [][/\ \A sid \in DOMAIN store :
             Turn(sid) =>
                LET before == store[sid]
                    after == store'[sid]
                    n == Len(before.messages)
                IN  /\ turn'.committed
                    /\ StartsWith(after.messages, before.messages)
                    /\ StartsWith(after.agenticDecisions, before.agenticDecisions)
                    /\ Len(after.messages) = n + 2
                    /\ after.messages[n + 1].role = "user"
                    /\ after.messages[n + 2].role = "assistant"
       /\ \A sid \in DOMAIN store' : Alternates(store'[sid].messages)
    ]_vars

\* a session that a warning, two questions and a termination have left with
\* seven transcript entries and three log entries
C24_Witness ==
    \E sid \in DOMAIN store :
        /\ Len(store[sid].messages) = 7
        /\ Alternates(store[sid].messages)
        /\ store[sid].agenticDecisions = <<"MODERATE", "MOVE_NEXT", "TERMINATE">>
        /\ turn.committed

\* the number of user turns in a transcript
UserTurns(messages) ==
    Cardinality({i \in 1..Len(messages) : messages[i].role = "user"})

\* C28 -- Question count: in every persisted state questionsAsked is the
\* number of user turns in the transcript and is at most
\* clamp(floor(durationMinutes/4), 6, 12), so that no transcript holds more
\* than 12 user turns; and no step makes questionsAsked smaller.
C28_QuestionCount ==
    [][\A sid \in DOMAIN store' :
          LET after == store'[sid]
          IN  /\ after.state.questionsAsked = UserTurns(after.messages)
              /\ after.state.questionsAsked
                    <= Clamp(after.config.durationMinutes \div 4, 6, 12)
              /\ UserTurns(after.messages) <= 12
              /\ sid \in DOMAIN store
                    => after.state.questionsAsked >= store[sid].state.questionsAsked
    ]_vars

\* a 20 minute session at its cap of 6 questions, with 6 user turns
C28_Witness ==
    \E sid \in DOMAIN store :
        /\ store[sid].config.durationMinutes = 20
        /\ store[sid].state.questionsAsked = 6
        /\ UserTurns(store[sid].messages) = 6
        /\ ~store[sid].state.isActive
        /\ turn.committed

\* C30 as stated: on a CHANGE_PHASE turn the phase transition content is
\* generated from the phase before the turn to the phase the turn performs
\* the transition to, which is the phase stored after the turn unless the
\* turn also ends the session.
C30_AsStated ==
    [][\A sid \in DOMAIN store :
          (Turn(sid) /\ turn'.decision = "CHANGE_PHASE") =>
              /\ turn'.transition.from = store[sid].state.phase
              /\ turn'.transition.to =
                    IF store'[sid].state.isActive
                    THEN store'[sid].state.phase
                    ELSE FollowingPhase(store[sid].state.phase)
    ]_vars

-----------------------------------------------------------------------------
(* SpecFaults: one planner action, and every provider call and the save     *)
(* may fail                                                                 *)

FaultInputs ==
    [ids |-> SessionIds,
     texts |-> {longText},
     durations |-> Durations,
     maxClock |-> MaxClock,
     moderation |-> {clean},
     planner |-> {Plan("json", "MOVE_NEXT"), Plan("malformed", "null"),
                  Plan("json", "null"), Plan("throw", "null")},
     content |-> TextReplies,
     feedback |-> TextReplies,
     evaluation |-> AllEvaluationReplies,
     save |-> BOOLEAN,
     request |-> "null"]

createSessionFaulty == createSessionWith(FaultInputs)
sendMessageFaulty == sendMessageWith(FaultInputs)

NextFaults == Tick \/ createSessionFaulty \/ sendMessageFaulty

SpecFaults == Init /\ [][NextFaults]_vars

PlannerFaults == {"makeAgenticDecision", "agenticDecisions.decision"}

\* C5 -- A planner payload JSON.parse rejects raises no error of its own:
\* the decision is MOVE_NEXT, content is generated for MOVE_NEXT, no failure
\* of the turn is the planner's or the decision's, and unless another call
\* or the save fails the turn commits, answers 200 and stores a non-empty
\* assistant message.
C5_MalformedPlanFailsSafe ==
    turn.payload = "malformed" =>
        /\ turn.decision = "MOVE_NEXT"
        /\ turn.generatedFor = "MOVE_NEXT"
        /\ "generateNextQuestion" \in turn.calls
        /\ turn.failedAt \cap PlannerFaults = {}
        /\ turn.failedAt = {} =>
              /\ turn.committed
              /\ turn.status = 200
              /\ turn.aiResponse = "text"
              /\ \A sid \in DOMAIN store :
                    LET doc == store[sid]
                    IN  /\ doc.messages[Len(doc.messages)] =
                               [role |-> "assistant", content |-> "text"]
                        /\ doc.agenticDecisions[Len(doc.agenticDecisions)] = "MOVE_NEXT"

\* a turn whose planner payload was malformed has committed
C5_Witness ==
    /\ turn.payload = "malformed"
    /\ turn.committed
    /\ turn.decision = "MOVE_NEXT"
    /\ resp.status = 200
    /\ \E sid \in DOMAIN store : store[sid].state.isActive

\* C11 -- Turn atomicity: a step either leaves the persisted record of a
\* session exactly as it was, or is a committed turn answered 200 that adds
\* the user message and the assistant message to the transcript and counts
\* the user turn, all in one write; a run of the pipeline that fails, at a
\* provider call, at validation or at the write, changes no record and
\* leaves the session active.
C11_TurnAtomicity ==
    [][/\ \A sid \in DOMAIN store :
              LET before == store[sid]
                  after == store'[sid]
                  n == Len(before.messages)
              IN  \/ after = before
                  \/ /\ turn'.committed
                     /\ turn'.failedAt = {}
                     /\ resp'.op = "sendMessage" /\ resp'.status = 200
                     /\ Len(after.messages) = n + 2
                     /\ SubSeq(after.messages, 1, n) = before.messages
                     /\ after.messages[n + 1].role = "user"
                     /\ after.messages[n + 2].role = "assistant"
                     /\ after.state.questionsAsked = before.state.questionsAsked + 1
       /\ (turn' # turn /\ turn'.failedAt # {})
              => /\ store' = store
                 /\ ~turn'.committed
                 /\ resp'.status = 500
                 /\ store[turn'.sessionId].state.isActive
    ]_vars

\* after a committed turn, a turn reached the write and the write failed
C11_Witness ==
    /\ turn.failedAt = {"save"}
    /\ "generateNextQuestion" \in turn.calls
    /\ resp.status = 500
    /\ \E sid \in DOMAIN store :
          /\ store[sid].state.questionsAsked = 1
          /\ Len(store[sid].messages) = 3
          /\ store[sid].state.isActive

KnownActions ==
    {"ASK_FOLLOWUP", "MOVE_NEXT", "CHANGE_PHASE", "CLARIFY", "WRAP_UP", "REDIRECT",
     "MODERATE"}

\* C18 as stated: when the planner payload parses and its action is missing
\* or is none of the known actions, the decision of the turn is MOVE_NEXT,
\* the turn does not fail at the planner or at the decision, and unless
\* another call or the save fails the turn commits with MOVE_NEXT as its
\* entry of the decision log.
C18_AsStated ==
    (turn.payload = "json" /\ turn.proposed \notin KnownActions) =>
        /\ turn.decision = "MOVE_NEXT"
        /\ turn.failedAt \cap PlannerFaults = {}
        /\ turn.failedAt = {} =>
              /\ turn.committed
              /\ LET log == store[turn.sessionId].agenticDecisions
                 IN  log[Len(log)] = "MOVE_NEXT"

ProviderCalls ==
    {"analyzeResponseApproppriateness", "makeAgenticDecision", "generateNextQuestion",
     "generatePracticeFeedback", "generateEvaluation"}

\* C20 as stated: a run of the pipeline on an active session in which
\* nothing but provider calls failed commits the turn, answers 200 and
\* returns a non-empty assistant message.
C20_AsStated ==
    (turn.calls # {} /\ turn.failedAt \subseteq ProviderCalls) =>
        /\ turn.committed
        /\ turn.status = 200
        /\ turn.aiResponse \notin {"", "null"}

-----------------------------------------------------------------------------
(* SpecRequests: requests that name any session, known or not, reads of the *)
(* evaluation, and applications of getNextPhase                             *)

RequestInputs ==
    [ids |-> RequestIds,
     texts |-> {<<>>, longText},
     durations |-> {20},
     maxClock |-> ModerationClock,
     moderation |-> {clean, profane},
     planner |-> {Plan("json", "MOVE_NEXT")},
     content |-> {"text"},
     feedback |-> {"text"},
     evaluation |-> {"valid"},
     save |-> {TRUE},
     request |-> "null"]

createSessionRequested == createSessionWith(RequestInputs)
sendMessageRequested == sendMessageWith(RequestInputs)

NextRequests ==
    TickModerated \/ createSessionRequested \/ sendMessageRequested \/ getEvaluation \/ nextPhase

SpecRequests == Init /\ [][NextRequests]_vars

\* a step of sendMessage
SendStep ==
    /\ resp'.op = "sendMessage"
    /\ resp' # resp \/ turn' # turn \/ store' # store

\* C12 -- A sendMessage with its fields present that names an unknown
\* session is answered 404 not found, and one that names an inactive
\* session is answered 400 session ended; neither runs any call of the
\* pipeline nor changes any record; an inactive session's record never
\* changes again.
C12_RejectsUnknownAndEnded ==
    [][/\ (SendStep /\ resp'.error # "missing_fields") =>
              LET sid == resp'.sessionId
              IN  /\ sid \notin DOMAIN store
                        => /\ resp'.status = 404 /\ resp'.error = "not_found"
                           /\ store' = store /\ turn' = turn
                  /\ (sid \in DOMAIN store /\ ~store[sid].state.isActive)
                        => /\ resp'.status = 400 /\ resp'.error = "ended"
                           /\ store' = store /\ turn' = turn
       /\ \A sid \in DOMAIN store :
              ~store[sid].state.isActive => store'[sid] = store[sid]
    ]_vars

\* a message sent to a session that has ended was answered 400
C12_Witness ==
    /\ resp.op = "sendMessage"
    /\ resp.status = 400
    /\ resp.error = "ended"
    /\ resp.sessionId \in DOMAIN store
    /\ ~store[resp.sessionId].state.isActive

\* C13 -- getEvaluation is an idempotent read: it changes no record, no
\* trace and no clock, and when the last response was already a
\* getEvaluation of the same completed session (no sendMessage in between,
\* whatever time has passed) the response is identical to that one.
C13_GetEvaluationIdempotent ==
    [][/\ (resp'.op = "getEvaluation" /\ resp' # resp)
              => (store' = store /\ turn' = turn /\ clock' = clock)
       /\ (/\ resp.op = "getEvaluation"
           /\ resp'.op = "getEvaluation"
           /\ resp'.sessionId = resp.sessionId
           /\ resp.sessionId \in DOMAIN store
           /\ ~store[resp.sessionId].state.isActive)
              => resp' = resp
    ]_vars

\* the evaluation of a completed session was read, some time after the end
C13_Witness ==
    /\ resp.op = "getEvaluation"
    /\ resp.status = 200
    /\ resp.sessionId \in DOMAIN store
    /\ ~store[resp.sessionId].state.isActive
    /\ resp.body = getEvaluationBody(resp.sessionId)
    /\ clock > store[resp.sessionId].state.endTime[1]

\* C17 as stated: for every phase value p, setup, completed and a value
\* that is no phase included, getNextPhase(p) is the entry following p in
\* the list, and wrap_up when p is wrap_up or is not in the list; it is
\* never completed and never a phase earlier than p.
C17_AsStated ==
    resp.op = "getNextPhase" =>
        /\ resp.body.next = FollowingPhase(resp.body.phase)
        /\ resp.body.next # "completed"
        /\ resp.body.phase # "unknown"
              => Rank(resp.body.next) >= Rank(resp.body.phase)

-----------------------------------------------------------------------------
(* SpecLong: sessions of 60 minutes and more, over a time long enough for   *)
(* 80% of the duration to elapse, with a planner that always proposes       *)
(* WRAP_UP                                                                  *)

LongDurations == {60, 64}

LongInputs ==
    [ids |-> SessionIds,
     texts |-> {longText},
     durations |-> LongDurations,
     maxClock |-> LongClock,
     moderation |-> {clean, profane},
     planner |-> {Plan("json", "WRAP_UP")},
     content |-> {"text"},
     feedback |-> {"text"},
     evaluation |-> {"valid"},
     save |-> {TRUE},
     request |-> "null"]

createSessionLong == createSessionWith(LongInputs)
sendMessageLong == sendMessageWith(LongInputs)
TickLong == TickTo(LongClock)

NextLong == TickLong \/ createSessionLong \/ sendMessageLong

SpecLong == Init /\ [][NextLong]_vars

\* C29 -- For a session of more than 60 minutes the minimum question count
\* max(3, ceil(d/5)) exceeds the cap clamp(floor(d/4), 6, 12); a WRAP_UP the
\* planner proposes on a turn of such a session is never honoured: the
\* content is generated as for MOVE_NEXT, the turn does not end the session
\* by wrap-up and does not move the phase to wrap_up; and such a session
\* becomes inactive only by the hard termination or by a moderation
\* TERMINATE.
C29_LongSessionsNeverWrapUp ==
    [][\A sid \in DOMAIN store :
          LET before == store[sid]
              after == store'[sid]
              d == before.config.durationMinutes
              cap == Clamp(d \div 4, 6, 12)
          IN  (Turn(sid) /\ d > 60) =>
                /\ Max(3, (d + 4) \div 5) > cap
                /\ turn'.decision = "WRAP_UP" =>
                      /\ turn'.generatedFor = "MOVE_NEXT"
                      /\ ~turn'.shouldEndSession
                      /\ after.state.phase # "wrap_up"
                /\ ~after.state.isActive =>
                      \/ ModerationTerminated(after)
                      \/ ElapsedMinutes(after.state, clock') >= d
                      \/ after.state.questionsAsked >= cap
    ]_vars

\* the planner proposed WRAP_UP at the 12th answer of a 64 minute mock
\* session, more than 80% of the time gone: the proposal was overridden and
\* the question cap ended the session
C29_Witness ==
    \E sid \in DOMAIN store :
        /\ store[sid].config.durationMinutes = 64
        /\ turn.committed
        /\ turn.decision = "WRAP_UP"
        /\ turn.generatedFor = "MOVE_NEXT"
        /\ minTimeElapsedReached(turn.elapsedMinutes, 64)
        /\ turn.elapsedMinutes < 64
        /\ store[sid].state.questionsAsked = 12
        /\ ~store[sid].state.isActive
        /\ store[sid].evaluation # "null"

-----------------------------------------------------------------------------
(* SpecConcurrent: two requests for one session, each in two steps, its     *)
(* findOne and the rest of the handler up to its save, with no time passing *)

Requests == {"r1", "r2"}

ConcurrentInputs ==
    [ids |-> SessionIds,
     texts |-> {longText},
     durations |-> {20},
     maxClock |-> 0,
     moderation |-> {clean},
     planner |-> {Plan("json", "MOVE_NEXT")},
     content |-> {"text"},
     feedback |-> {"text"},
     evaluation |-> {"valid"},
     save |-> {TRUE},
     request |-> "null"]

createSessionConcurrent == createSessionWith(ConcurrentInputs)

\* lines 115-140: the request is read, the session found and found active
findSession ==
    /\ llm.initDone
    /\ \E request \in Requests \ DOMAIN pending,
          sessionId \in ConcurrentInputs.ids, message \in ConcurrentInputs.texts :
          /\ sessionId \in DOMAIN store
          /\ store[sessionId].state.isActive
          /\ pending' = (request :> [sessionId |-> sessionId, message |-> message,
                                      session |-> store[sessionId]]) @@ pending
    /\ UNCHANGED <<clock, store, llm, env, resp, turn>>

\* lines 142-381, on the document that findOne returned
processMessage ==
    \E request \in DOMAIN pending :
        Pipeline(pending[request].sessionId, pending[request].session,
                 pending[request].message,
                 [ConcurrentInputs EXCEPT !.request = request])

NextConcurrent == createSessionConcurrent \/ findSession \/ processMessage

SpecConcurrent == Init /\ [][NextConcurrent]_vars

\* C21 as stated: whatever the overlap of two requests for one session, the
\* persisted record is one that turns taken one after the other produce: no
\* increment of questionsAsked is lost, so that questionsAsked is the number
\* of user turns; no save appends a turn to a session that was inactive
\* when the save was made; and an inactive session is in phase completed
\* with its end time, and a session at its question cap is inactive.
C21_AsStated ==
    [][\A sid \in DOMAIN store' :
          LET after == store'[sid]
          IN  /\ after.state.questionsAsked = UserTurns(after.messages)
              /\ (sid \in DOMAIN store /\ ~store[sid].state.isActive)
                    => after.messages = store[sid].messages
              /\ ~after.state.isActive
                    => (after.state.phase = "completed" /\ after.state.endTime # <<>>)
              /\ after.state.questionsAsked
                    >= maxQuestions(after.config.durationMinutes)
                    => ~after.state.isActive
    ]_vars

-----------------------------------------------------------------------------
(* SpecModeration: every classification the moderation analysis can         *)
(* return, with a planner that always proposes MOVE_NEXT                    *)

ModerationInputs ==
    [ids |-> SessionIds,
     texts |-> UserTexts,
     durations |-> {30},
     maxClock |-> ModerationClock,
     moderation |-> AllModerationReplies,
     planner |-> {Plan("json", "MOVE_NEXT")},
     content |-> {"text"},
     feedback |-> {"text"},
     evaluation |-> {"valid"},
     save |-> {TRUE},
     request |-> "null"]

createSessionModerated == createSessionWith(ModerationInputs)
sendMessageModerated == sendMessageWith(ModerationInputs)

NextModeration == TickModerated \/ createSessionModerated \/ sendMessageModerated

SpecModeration == Init /\ [][NextModeration]_vars

\* the classification the escalation policy counts as a warning
Escalates(analysis) == analysis.containsProfanity \/ analysis.severity = "high"

PlanningCalls ==
    {"makeAgenticDecision", "generateNextQuestion", "generatePracticeFeedback",
     "generateEvaluation"}

\* C4 as stated: when the turn after a committed turn classified as profane
\* or of high severity is classified so again, it is a TERMINATE turn: the
\* session becomes inactive, endTime is set, the phase is completed, and the
\* planner, the content generation, the feedback and the evaluation are not
\* called.
C4_AsStated ==
    [][\A sid \in SessionIds :
          (/\ sid \in DOMAIN store
           /\ store[sid].state.isActive
           /\ turn' # turn \/ store' # store
           /\ turn.committed
           /\ Escalates(turn.analysis)
           /\ Escalates(turn'.analysis))
          => /\ turn'.committed
             /\ turn'.decision = "TERMINATE"
             /\ ~store'[sid].state.isActive
             /\ store'[sid].state.endTime # <<>>
             /\ store'[sid].state.phase = "completed"
             /\ turn'.calls \cap PlanningCalls = {}
    ]_vars

\* a run of the sendMessage pipeline
RunStep ==
    /\ turn'.calls # {}
    /\ turn' # turn \/ store' # store

\* the classification the escalation policy answers with a redirect
OffTopic(analysis) ==
    /\ ~analysis.isOnTopic
    /\ ~analysis.containsProfanity
    /\ analysis.severity # "high"

ContentCalls == {"makeAgenticDecision", "generateNextQuestion", "generatePracticeFeedback"}

\* C14 as stated: a turn classified as not on-topic, not profane and not of
\* high severity has the action REDIRECT: the assistant message is the
\* redirect that restates the question, no planner, content or feedback
\* call is made, and the phase is not advanced.
C14_AsStated ==
    [][(RunStep /\ OffTopic(turn'.analysis)) =>
          /\ turn'.decision = "REDIRECT"
          /\ turn'.aiResponse = "redirect"
          /\ turn'.calls \cap ContentCalls = {}
          /\ store'[turn'.sessionId].state.phase = store[turn'.sessionId].state.phase
    ]_vars

\* C15 as stated: a committed turn whose action is MODERATE, a warning,
\* leaves the phase and questionsAsked as they were before the turn.
C15_AsStated ==
    [][(RunStep /\ turn'.committed /\ turn'.decision = "MODERATE"
              /\ turn'.aiResponse = "warning") =>
          /\ store'[turn'.sessionId].state.phase = store[turn'.sessionId].state.phase
          /\ store'[turn'.sessionId].state.questionsAsked =
                store[turn'.sessionId].state.questionsAsked
    ]_vars

\* the moderation replies the guard cannot use: the call failed, the text is
\* no JSON, the JSON lacks the fields
UnusableReplies == {"throw", "nonjson", "incomplete"}

\* C16 as stated: when the moderation call fails or its output is no JSON or
\* JSON without the expected fields, the analysis is not appropriate and
\* not on-topic exactly when the trimmed message is shorter than 5
\* characters, and a message of 5 characters or more goes on to planning.
C16_AsStated ==
    turn.reply \in UnusableReplies =>
        LET short == Len(Trim(turn.message)) < 5
        IN  /\ turn.analysis.isAppropriate = ~short
            /\ turn.analysis.isOnTopic = ~short
            /\ ~short => turn.calls \cap {"makeAgenticDecision",
                                           "generatePracticeFeedback"} # {}

\* C22 as stated: a turn classified as profane or of high severity makes no
\* planner, content or feedback call and, whatever isAppropriate and
\* isOnTopic are, is a MODERATE turn that raises the warning count to 1
\* when the count was 0, and a TERMINATE turn when the count was 1 or more.
C22_AsStated ==
    [][(RunStep /\ Escalates(turn'.analysis)) =>
          LET prior == WarningCount(store[turn'.sessionId])
          IN  /\ turn'.calls \cap ContentCalls = {}
              /\ turn'.committed
              /\ prior = 0 => /\ turn'.decision = "MODERATE"
                              /\ WarningCount(store'[turn'.sessionId]) = 1
              /\ prior >= 1 => turn'.decision = "TERMINATE"
    ]_vars

\* C25 as stated: a committed turn adds a MODERATE entry to the decision log
\* only when it was classified as profane or of high severity, and a turn
\* is a TERMINATE turn only when it was so classified and an earlier turn
\* was too; so the session of a user whose first message was only
\* off-topic is not terminated at its second turn.
C25_AsStated ==
    [][RunStep =>
          LET before == store[turn'.sessionId]
              after == store'[turn'.sessionId]
          IN  /\ WarningCount(after) > WarningCount(before)
                    => Escalates(turn'.analysis)
              /\ (turn'.decision = "TERMINATE" /\ before.state.questionsAsked = 1)
                    => (Escalates(turn.analysis) /\ Escalates(turn'.analysis))
    ]_vars

\* C26 as stated: whatever the classification and the warning count, a run
\* of the pipeline on an active session commits with a non-empty assistant
\* message; the moderation branch is never taken with no message.
C26_AsStated ==
    turn.calls # {} =>
        /\ turn.committed
        /\ turn.failedAt = {}
        /\ turn.aiResponse \notin {"", "null"}

-----------------------------------------------------------------------------
(* SpecFacade: the process from its start, with providers that come and go  *)

FacadeOps ==
    {"generateInterviewPlan", "generateInitialQuestion",
     "analyzeResponseApproppriateness", "generateModerationResponse",
     "makeAgenticDecision", "generateNextQuestion", "generatePracticeFeedback",
     "generateEvaluation"}

NotStarted ==
    [initDone |-> FALSE, primaryService |-> "null", fallbackService |-> "null",
     activeService |-> "null"]

\* the constructor's initPromise resolves
startup ==
    /\ ~llm.initDone
    /\ llm' = initializeServices(env)
    /\ UNCHANGED <<clock, store, env, resp, turn, pending>>

\* a provider becomes reachable or unreachable
providerChanges ==
    /\ \E b \in BOOLEAN, o \in BOOLEAN :
          /\ <<b, o>> # <<env.bedrockUp, env.ollamaUp>>
          /\ env' = [env EXCEPT !.bedrockUp = b, !.ollamaUp = o]
    /\ UNCHANGED <<clock, store, llm, resp, turn, pending>>

\* LLMService lines 119-173: a call through the facade is served by
\* getService(); via "throw" when getService throws; status 500 when the call
\* raises, 200 when it returns
facadeCall ==
    /\ llm.initDone
    /\ \E op \in FacadeOps :
          resp' = IF getService = "throw"
                  THEN [NoResp EXCEPT !.op = op, !.via = "throw", !.status = 500]
                  ELSE [NoResp EXCEPT !.op = op, !.via = getService,
                                      !.status = IF Reachable(getService) THEN 200 ELSE 500]
    /\ UNCHANGED <<clock, store, llm, env, turn, pending>>

createSessionAtStart == createSessionWith(SpecInputs)

InitFacade ==
    /\ clock = 0
    /\ store = <<>>
    /\ env \in [useBedrock : BOOLEAN, bedrockUp : BOOLEAN, ollamaUp : BOOLEAN]
    /\ llm = NotStarted
    /\ resp = NoResp
    /\ turn = NoTurn
    /\ pending = <<>>

NextFacade ==
    startup \/ providerChanges \/ facadeCall \/ healthCheck \/ createSessionAtStart

SpecFacade == InitFacade /\ [][NextFacade]_vars

\* the selection made at startup: the primary failed, the secondary answered
FailedOver ==
    /\ llm.initDone
    /\ llm.primaryService = "bedrock"
    /\ llm.activeService = "ollama"

\* the selection made at startup found no provider
NoneSelected == llm.initDone /\ llm.activeService = "null"

\* C6 -- Provider selection is made once and is sticky: a startup that finds
\* the primary unreachable and the secondary reachable selects the
\* secondary; the selection never changes afterwards, whatever becomes of
\* the providers; and with that selection the health check reports the
\* secondary and every facade call is served by the secondary.
C6_StickySelection ==
    [][/\ (~llm.initDone /\ llm'.initDone
              /\ env.useBedrock /\ ~env.bedrockUp /\ env.ollamaUp) => FailedOver'
       /\ llm.initDone => llm' = llm
       /\ FailedOver' =>
              /\ resp'.op = "healthCheck" => resp'.llmService = "Ollama"
              /\ resp'.op \in FacadeOps => resp'.via = "ollama"
    ]_vars

\* the primary has come back, and a facade call still went to the secondary
C6_Witness ==
    /\ FailedOver
    /\ env.bedrockUp
    /\ resp.op \in FacadeOps
    /\ resp.via = "ollama"

\* C7 -- When neither provider is reachable at startup no service is
\* selected, and from then on every facade call fails in getService with
\* the no-service error, and createSession is answered 503 (400 for an
\* invalid request) and no session is ever stored.
C7_NoProvider ==
    [][/\ (~llm.initDone /\ llm'.initDone /\ ~env.bedrockUp /\ ~env.ollamaUp)
              => NoneSelected'
       /\ NoneSelected' =>
              /\ resp'.op \in FacadeOps => (resp'.via = "throw" /\ resp'.status = 500)
              /\ resp'.op = "createSession" => resp'.status \in {400, 503}
              /\ store' = <<>>
    ]_vars

\* a provider has come back, and createSession is still answered 503
C7_Witness ==
    /\ NoneSelected
    /\ env.ollamaUp
    /\ resp.op = "createSession"
    /\ resp.status = 503

\* C27 as stated: whatever the startup found, the health check reports
\* 'None' exactly when no provider is active, 'AWS Bedrock' only when the
\* primary is active and 'Ollama' only when the secondary is active.
C27_AsStated ==
    resp.op = "healthCheck" =>
        /\ resp.llmService = "None" <=> llm.activeService = "null"
        /\ resp.llmService = "AWS Bedrock" => llm.activeService = "bedrock"
        /\ resp.llmService = "Ollama" => llm.activeService = "ollama"

====
